---- MODULE Spec2Model ----
(***************************************************************************)
(* Order / inventory engine of store_test_task (product/views.py).         *)
(*                                                                         *)
(* The four order endpoints are modelled as they are written: each one is  *)
(* a single action that reads the tables, runs the handler's checks in the *)
(* handler's order and applies every save() the handler performs.          *)
(*                                                                         *)
(* Tables:   Product.stock, Order(user, order_status, created, updated),   *)
(*           ProductOrder(quantity, product, order).                       *)
(* Messages: the endpoint and <int:pk> of the request last received, and   *)
(*           the JsonResponse returned for it.                             *)
(* History:  `pre` is the content of the tables when that request arrived; *)
(*           `body` is the JSON body of that request in the runs that      *)
(*           record it (SpecCreate), and empty in the others.              *)
(***************************************************************************)
EXTENDS Integers, Sequences, FiniteSets, TLC

---------------------------------------------------------------------------
(* Bounds of the model *)

NumProducts == 2
NumUsers == 1
InitStock == 2
MaxQuantity == 2
MaxNegQuantity == 1
MaxLines == 2
MaxOrders == 2
MaxRequests == 3
MaxRecordedRequests == 2
NumConcurrent == 2
NumNames == 2
MaxPrice == 2
MaxCostPrice == 1
FirstWindowDate == 2
LastWindowDate == 3
NumReportNames == 2
MaxSummaryRequests == 4
MaxStoreRequests == 2

---------------------------------------------------------------------------
(* Rows that exist, and the values a request may carry *)

\* Product rows (AutoField primary keys).
Products == 1..NumProducts

\* auth.User rows.
Users == 1..NumUsers

\* unit["id"] of a request: an existing product id or one that matches no row.
ProductIds == 1..(NumProducts + 1)

\* request.data["user"]: an existing user id or one that matches no row.
UserIds == 1..(NumUsers + 1)

\* <int:pk> of the order URLs: an existing order id or one that matches no row.
OrderIds == 1..(MaxOrders + 1)

\* unit["quantity"]: the handlers take the JSON number as it comes, so
\* negative numbers and zero are among the inputs.
Quantities == (0 - MaxNegQuantity)..MaxQuantity

\* One element of request.data["order"].
Units == [id : ProductIds, quantity : Quantities]

\* request.data["order"]: a JSON list of units.
OrderLists == UNION {[1..n -> Units] : n \in 0..MaxLines}

OrderStatusEnum == {"stable", "cancelled", "completed"}

VARIABLES
    stock,          \* Product.stock, by product id
    orders,         \* Order table: orders[pk] is the row with primary key pk
    product_order,  \* ProductOrder table: product_order[i] is the row with primary key i
    now,            \* the clock that auto_now / auto_now_add read; one tick per request
    request,        \* the request last received: its endpoint and the pk of its URL
    response,       \* the JsonResponse returned for it
    pre,            \* the tables when that request arrived
    body,           \* the JSON body of that request, where the run records it
    handlers,       \* the requests being handled concurrently: each one's position
                    \* in its view and its local variables
    products,       \* Product.product_name, price and cost_price, by product id
    reports,        \* SummaryReportModel table: reports[pk] is the row with primary key pk
    files,          \* the files of SummaryReports/, by file name: the rows of each
    tasks           \* the summary_task invocations sent to the worker, each with its
                    \* arguments, its position in the task and its local variables

\* The state of the catalog's descriptive fields and of the report side.
reporting == <<products, reports, files, tasks>>

vars == <<stock, orders, product_order, now, request, response, pre, body, handlers,
          products, reports, files, tasks>>

Tables == [stock |-> stock, orders |-> orders, product_order |-> product_order]

---------------------------------------------------------------------------
(* The catalog's descriptive fields and the values a report request carries *)

\* Product.product_name (not unique), price and cost_price.
ProductNames == 1..NumNames
Prices == 1..MaxPrice
CostPrices == 1..MaxCostPrice
\* The catalogs PostProduct can have created for the products of a set, each
\* with the same price and cost price and with any names.
CatalogsOf(ids) ==
    [ids -> [product_name : ProductNames, price : {MaxPrice}, cost_price : {MaxCostPrice}]]
Catalogs == CatalogsOf(Products)
DefaultCatalog ==
    [p \in Products |->
        [product_name |-> ((p - 1) % NumNames) + 1, price |-> MaxPrice, cost_price |-> MaxCostPrice]]

\* The values of first_date and second_date: a string that parses as a
\* timestamp, a string that does not ('wrong date'), and JSON null.
Datetime(t) == [type |-> "datetime", value |-> t]
WrongDate == [type |-> "str", value |-> 0]
NullDate == [type |-> "null", value |-> 0]
WindowDates == {Datetime(t) : t \in FirstWindowDate..LastWindowDate}
TaskDates == WindowDates \cup {WrongDate, NullDate}

\* A date key that the body of a report request does not have.
MissingDate == [type |-> "missing", value |-> 0]

\* The values of name: a string, or a value that is not one (1).
ReportName(n) == [is_str |-> TRUE, value |-> n]
NotAString == [is_str |-> FALSE, value |-> 1]
ReportNames == {ReportName(n) : n \in 1..NumReportNames}
TaskNames == ReportNames \cup {NotAString}

\* A name key that the body of a report request does not have.
MissingName == [is_str |-> FALSE, value |-> 0]

\* No report has been requested: no row, no file, no task.
NoReports ==
    /\ reports = <<>>
    /\ files = [name \in {} |-> <<>>]
    /\ tasks = <<>>

---------------------------------------------------------------------------
(* Responses *)

\* JsonResponse({"error": ...}, status=400); `about` is the id the message
\* names, `at` the iteration of the handler's loop that returned it (0 when
\* the return is outside the loop).
ErrorResponse(message, about, at) ==
    [status |-> 400, error |-> message, about |-> about, at |-> at]

\* JsonResponse({"<...>_order": serialized order}, status=200); `about` is the order's id.
OkResponse(pk) == [status |-> 200, error |-> "", about |-> pk, at |-> 0]

\* The body of a request that carries none, or whose body the run does not record.
NoBody == [user |-> 0, order |-> <<>>]

\* request.data of orders/create/.
CreateBody(received_user_id, received_order) ==
    [user |-> received_user_id, order |-> received_order]

\* request.data of orders/update/<pk>/: only its "order" key is read.
UpdateBody(new_order_products) == [user |-> 0, order |-> new_order_products]

\* The endpoint a request went to and the pk of its URL (0 for orders/create/).
Request(op, pk) == [op |-> op, pk |-> pk]

\* The error messages of the handlers, without the ids they interpolate.
NoSuchUser == "no such User with id"
NoSuchProduct == "no such Product with id"
CreateOutOfStock == "Trying to order more products than in stock <"
UpdateNoSuchOrder == "Missing or invalid order id in request"
UpdateTerminal == "Completed or cancelled orders cannot be changed"
UpdateMissingProduct == "Missing product with id in request json"
UpdateOutOfStock == "Trying to order more products than in stock"
NoSuchOrder == "No such order with id in request"
CancelCompleted == "Completed orders cannot be cancelled"
CompleteCancelled == "Cancelled order cannot be completed"

---------------------------------------------------------------------------
(* Helpers shared by the handlers *)

\* save_models(model_list) applied to Product instances: each instance is
\* written in list order, so a later instance of the same row overwrites an
\* earlier one.
RECURSIVE save_models(_, _)
save_models(products_list, st) ==
    IF products_list = <<>> THEN st
    ELSE save_models(Tail(products_list),
                     [st EXCEPT ![Head(products_list).id] = Head(products_list).stock])

\* ProductOrder.objects.select_related("product").filter(order=pk): the primary
\* keys of the order's lines.
OrderLinesOf(po, pk) == {i \in DOMAIN po : po[i].order = pk}

\* The queryset has no order_by and ProductOrder has no Meta.ordering, so the
\* rows come in whatever order the database returns them.
QueryOrders(S) ==
    {qs \in [1..Cardinality(S) -> S] : \A i, j \in 1..Cardinality(S) : i # j => qs[i] # qs[j]}

\* The first iteration of a loop that meets a returning condition, 0 when
\* none does; returns[i] tells whether iteration i meets one.
FirstIndex(returns) ==
    IF \E i \in DOMAIN returns : returns[i]
    THEN CHOOSE i \in DOMAIN returns : returns[i] /\ \A j \in 1..(i - 1) : ~returns[j]
    ELSE 0

\* A 400 response whose message leaves out the id.
RejectUnnamed(req, message, about, at) ==
    /\ request' = req
    /\ response' = ErrorResponse(message, 0, at)
    /\ UNCHANGED <<stock, orders, product_order>>

\* A 400 response: nothing is saved.
Reject(req, message, about, at) ==
    /\ request' = req
    /\ response' = ErrorResponse(message, about, at)
    /\ UNCHANGED <<stock, orders, product_order>>

---------------------------------------------------------------------------
(* CreateOrder.post *)

\* The check with its operands swapped.
CreateInsufficientSwapped(p_quantity, product_stock) == product_stock > p_quantity

\* if p_quantity > product.stock: reject
CreateInsufficient(p_quantity, product_stock) == p_quantity > product_stock

\* The decrement left out.
CreatedStockKept(product_stock, p_quantity) == product_stock

\* product.stock = product.stock - p_quantity
CreatedStock(product_stock, p_quantity) == product_stock - p_quantity

\* The unit at which the loop returns an error, 0 when the loop completes.
\* Product.objects.get builds a fresh instance from the row for every unit and
\* nothing is saved inside the loop, so every unit is checked against the
\* stock in the table.
CreateFailure(received_order, st) ==
    FirstIndex([i \in 1..Len(received_order) |->
                   \/ received_order[i].id \notin Products
                   \/ CreateInsufficient(received_order[i].quantity, st[received_order[i].id])])

\* products_list as it stands after the loop: one instance per unit.
CreateProductsList(received_order, st) ==
    [i \in 1..Len(received_order) |->
        [id |-> received_order[i].id,
         stock |-> CreatedStock(st[received_order[i].id], received_order[i].quantity)]]

\* product_order_list as it stands after the loop: one row per unit.
CreateProductOrderList(received_order, pk) ==
    [i \in 1..Len(received_order) |->
        [quantity |-> received_order[i].quantity, product |-> received_order[i].id, order |-> pk]]

CreateOrder(received_user_id, received_order) ==
    /\ now' = now + 1
    /\ pre' = Tables
    /\ LET req == Request("CreateOrder", 0)
           fail == CreateFailure(received_order, stock)
           pk == Len(orders) + 1
       IN IF received_user_id \notin Users
              THEN Reject(req, NoSuchUser, received_user_id, 0)
          ELSE IF fail # 0 /\ received_order[fail].id \notin Products
              THEN Reject(req, NoSuchProduct, received_order[fail].id, fail)
          ELSE IF fail # 0
              THEN Reject(req, CreateOutOfStock, received_order[fail].id, fail)
          ELSE /\ Len(orders) < MaxOrders
               /\ request' = req
               /\ orders' = Append(orders, [user |-> received_user_id, order_status |-> "stable",
                                            created |-> now', updated |-> now'])
               /\ stock' = save_models(CreateProductsList(received_order, stock), stock)
               /\ product_order' = product_order \o CreateProductOrderList(received_order, pk)
               /\ response' = OkResponse(pk)

---------------------------------------------------------------------------
(* UpdateOrder.put *)

\* The check without its second half.
UpdateRejectedCompleted(order) == order.order_status = "completed"

\* if (order.order_status == "completed") or (order.order_status == "cancelled"): reject
UpdateRejected(order) == order.order_status = "completed" \/ order.order_status = "cancelled"

\* reorder_by_id: a dict from unit["id"] to unit["quantity"]; a later unit
\* with the same id replaces an earlier one.
RECURSIVE reorder_by_id(_)
reorder_by_id(reordering_list) ==
    IF reordering_list = <<>> THEN <<>>
    ELSE LET n == Len(reordering_list)
             unit == reordering_list[n]
             reordered_dict == reorder_by_id(SubSeq(reordering_list, 1, n - 1))
         IN [id \in DOMAIN reordered_dict \cup {unit.id} |->
                IF id = unit.id THEN unit.quantity ELSE reordered_dict[id]]

\* The check with >= in the place of >.
UpdateInsufficientOrEqual(new_quantity, product_stock) == new_quantity >= product_stock

\* if new_quantity > product.stock: reject
UpdateInsufficient(new_quantity, product_stock) == new_quantity > product_stock

\* product.stock = product.stock + product_order.quantity - new_quantity
UpdatedStock(product_stock, quantity, new_quantity) == product_stock + quantity - new_quantity

\* The iteration over product_order_qs at which the loop returns an error, 0
\* when the loop completes. select_related builds one Product instance per
\* row when the queryset is evaluated, so every line is checked against the
\* stock in the table.
UpdateFailure(qs, new_order_dict, po, st) ==
    FirstIndex([i \in 1..Len(qs) |->
                   \/ po[qs[i]].product \notin DOMAIN new_order_dict
                   \/ UpdateInsufficient(new_order_dict[po[qs[i]].product], st[po[qs[i]].product])])

\* products_list as it stands after the loop: one instance per line.
UpdateProductsList(qs, new_order_dict, po, st) ==
    [i \in 1..Len(qs) |->
        [id |-> po[qs[i]].product,
         stock |-> UpdatedStock(st[po[qs[i]].product], po[qs[i]].quantity,
                                new_order_dict[po[qs[i]].product])]]

\* product_order.quantity = new_quantity, for every line of the order.
UpdateProductOrders(po, pk, new_order_dict) ==
    [i \in DOMAIN po |->
        IF po[i].order = pk THEN [po[i] EXCEPT !.quantity = new_order_dict[po[i].product]]
        ELSE po[i]]

\* A return inside the loop with the instances collected so far saved first.
UpdateLoopReturnSaved(req, message, about, at, products_list) ==
    /\ request' = req
    /\ response' = ErrorResponse(message, about, at)
    /\ stock' = save_models(products_list, stock)
    /\ UNCHANGED <<orders, product_order>>

\* A return inside the loop: products_list and product_order_list hold the
\* instances changed in memory so far, and neither list is saved.
UpdateLoopReturn(req, message, about, at, products_list) ==
    Reject(req, message, about, at)

UpdateOrder(pk, new_order_products, qs) ==
    /\ now' = now + 1
    /\ pre' = Tables
    /\ LET req == Request("UpdateOrder", pk)
           new_order_dict == reorder_by_id(new_order_products)
           fail == UpdateFailure(qs, new_order_dict, product_order, stock)
           products_list == UpdateProductsList(SubSeq(qs, 1, fail - 1), new_order_dict,
                                               product_order, stock)
       IN IF pk \notin DOMAIN orders
              THEN Reject(req, UpdateNoSuchOrder, pk, 0)
          ELSE IF UpdateRejected(orders[pk])
              THEN Reject(req, UpdateTerminal, pk, 0)
          ELSE IF fail # 0 /\ product_order[qs[fail]].product \notin DOMAIN new_order_dict
              THEN UpdateLoopReturn(req, UpdateMissingProduct, product_order[qs[fail]].product,
                                    fail, products_list)
          ELSE IF fail # 0
              THEN UpdateLoopReturn(req, UpdateOutOfStock, product_order[qs[fail]].product,
                                    fail, products_list)
          ELSE /\ request' = req
               /\ orders' = [orders EXCEPT ![pk].updated = now']
               /\ stock' = save_models(UpdateProductsList(qs, new_order_dict, product_order, stock), stock)
               /\ product_order' = UpdateProductOrders(product_order, pk, new_order_dict)
               /\ response' = OkResponse(pk)

---------------------------------------------------------------------------
(* CancelOrder.get *)

\* The check of CompleteOrder.get in the place of CancelOrder.get's.
CancelRejectedCopied(order) == order.order_status = "cancelled"

\* if order.order_status == "completed": reject
CancelRejected(order) == order.order_status = "completed"

\* product.stock = product.stock + product_order.quantity
CancelledStock(product_stock, quantity) == product_stock + quantity

\* The Product instances the loop saves, in the order it saves them.
\* select_related builds one instance per row when the queryset is
\* evaluated, before the first save, so each one starts from the stock in
\* the table.
CancelProductsList(qs, po, st) ==
    [i \in 1..Len(qs) |->
        [id |-> po[qs[i]].product,
         stock |-> CancelledStock(st[po[qs[i]].product], po[qs[i]].quantity)]]

\* order.order_status = "cancelled"
CancelledStatus == "cancelled"

CancelOrder(pk, qs) ==
    /\ now' = now + 1
    /\ pre' = Tables
    /\ LET req == Request("CancelOrder", pk)
       IN IF pk \notin DOMAIN orders
              THEN Reject(req, NoSuchOrder, pk, 0)
          ELSE IF CancelRejected(orders[pk])
              THEN Reject(req, CancelCompleted, pk, 0)
          ELSE /\ request' = req
               /\ stock' = save_models(CancelProductsList(qs, product_order, stock), stock)
               /\ orders' = [orders EXCEPT ![pk].order_status = CancelledStatus,
                                           ![pk].updated = now']
               /\ response' = OkResponse(pk)
               /\ UNCHANGED product_order

---------------------------------------------------------------------------
(* CompleteOrder.get *)

\* The check of CancelOrder.get in the place of CompleteOrder.get's.
CompleteRejectedCopied(order) == order.order_status = "completed"

\* if order.order_status == "cancelled": reject
CompleteRejected(order) == order.order_status = "cancelled"

\* The status CancelOrder.get writes in the place of CompleteOrder.get's.
CompletedStatusCopied == "cancelled"

\* order.order_status = "completed"
CompletedStatus == "completed"

CompleteOrder(pk) ==
    /\ now' = now + 1
    /\ pre' = Tables
    /\ LET req == Request("CompleteOrder", pk)
       IN IF pk \notin DOMAIN orders
              THEN Reject(req, NoSuchOrder, pk, 0)
          ELSE IF CompleteRejected(orders[pk])
              THEN Reject(req, CompleteCancelled, pk, 0)
          ELSE /\ request' = req
               /\ orders' = [orders EXCEPT ![pk].order_status = CompletedStatus,
                                           ![pk].updated = now']
               /\ response' = OkResponse(pk)
               /\ UNCHANGED <<stock, product_order>>

---------------------------------------------------------------------------

Init ==
    /\ stock = [p \in Products |-> InitStock]
    /\ orders = <<>>
    /\ product_order = <<>>
    /\ now = 0
    /\ request = Request("none", 0)
    /\ response = OkResponse(0)
    /\ pre = Tables
    /\ body = NoBody
    /\ handlers = <<>>
    /\ products = DefaultCatalog
    /\ NoReports

\* The requests the API layer hands to the handlers; `limit` caps the length
\* of a run.
PostRequests(limit, recorded) ==
    /\ now < limit
    /\ UNCHANGED <<handlers, reporting>>
    /\ \E received_user_id \in UserIds, received_order \in OrderLists :
          /\ CreateOrder(received_user_id, received_order)
          /\ body' = IF recorded THEN CreateBody(received_user_id, received_order) ELSE NoBody

PutRequests(limit, recorded) ==
    /\ now < limit
    /\ UNCHANGED <<handlers, reporting>>
    /\ \E pk \in OrderIds :
          \E qs \in QueryOrders(OrderLinesOf(product_order, pk)) :
             \E new_order_products \in OrderLists :
                /\ UpdateOrder(pk, new_order_products, qs)
                /\ body' = IF recorded THEN UpdateBody(new_order_products) ELSE NoBody

CancelRequests(limit) ==
    /\ now < limit
    /\ UNCHANGED <<handlers, reporting>>
    /\ body' = NoBody
    /\ \E pk \in OrderIds :
          \E qs \in QueryOrders(OrderLinesOf(product_order, pk)) : CancelOrder(pk, qs)

CompleteRequests(limit) ==
    /\ now < limit
    /\ UNCHANGED <<handlers, reporting>>
    /\ body' = NoBody
    /\ \E pk \in OrderIds : CompleteOrder(pk)

(* Runs of up to MaxRequests requests to the four endpoints *)

PostCreateOrder == PostRequests(MaxRequests, FALSE)
PutUpdateOrder == PutRequests(MaxRequests, FALSE)
GetCancelOrder == CancelRequests(MaxRequests)
GetCompleteOrder == CompleteRequests(MaxRequests)

Next ==
    \/ PostCreateOrder
    \/ PutUpdateOrder
    \/ GetCancelOrder
    \/ GetCompleteOrder

Spec == Init /\ [][Next]_vars

(* Runs of up to MaxRecordedRequests requests that record the body of every *)
(* orders/create/ request                                                   *)

PostCreateOrderRecorded == PostRequests(MaxRecordedRequests, TRUE)
PutUpdateOrderShort == PutRequests(MaxRecordedRequests, FALSE)
GetCancelOrderShort == CancelRequests(MaxRecordedRequests)
GetCompleteOrderShort == CompleteRequests(MaxRecordedRequests)

NextCreate ==
    \/ PostCreateOrderRecorded
    \/ PutUpdateOrderShort
    \/ GetCancelOrderShort
    \/ GetCompleteOrderShort

SpecCreate == Init /\ [][NextCreate]_vars

(* Runs of up to MaxRecordedRequests requests that record the body of every *)
(* orders/update/<pk>/ request                                              *)

PostCreateOrderShort == PostRequests(MaxRecordedRequests, FALSE)
PutUpdateOrderRecorded == PutRequests(MaxRecordedRequests, TRUE)

NextUpdate ==
    \/ PostCreateOrderShort
    \/ PutUpdateOrderRecorded
    \/ GetCancelOrderShort
    \/ GetCompleteOrderShort

SpecUpdate == Init /\ [][NextUpdate]_vars

---------------------------------------------------------------------------
(* CancelOrder.get handled by several workers at once. The view takes no     *)
(* lock and opens no transaction, so every query it issues is a step of its  *)
(* own, and the steps of the workers interleave.                             *)

ConcurrentHandlers == 1..NumConcurrent

\* Order.objects.get(pk=pk) and the status check on the instance it returns.
CancelGetOrder(h) ==
    /\ handlers[h].pc = "get"
    /\ LET pk == handlers[h].pk
       IN IF pk \notin DOMAIN orders
              THEN handlers' = [handlers EXCEPT ![h].pc = "done",
                                                ![h].response = ErrorResponse(NoSuchOrder, pk, 0)]
          ELSE IF CancelRejected(orders[pk])
              THEN handlers' = [handlers EXCEPT ![h].pc = "done",
                                                ![h].response = ErrorResponse(CancelCompleted, pk, 0)]
          ELSE handlers' = [handlers EXCEPT ![h].pc = "query", ![h].order = orders[pk]]
    /\ UNCHANGED <<stock, orders, product_order, now, request, response, pre, body, reporting>>

\* The for statement evaluates product_order_list: one query that returns the
\* order's lines, each with a Product instance holding the stock of that moment.
CancelQueryLines(h) ==
    /\ handlers[h].pc = "query"
    /\ \E qs \in QueryOrders(OrderLinesOf(product_order, handlers[h].pk)) :
          handlers' = [handlers EXCEPT ![h].pc = "loop",
                                       ![h].products_list = CancelProductsList(qs, product_order, stock)]
    /\ UNCHANGED <<stock, orders, product_order, now, request, response, pre, body, reporting>>

\* product.save() of one iteration of the loop.
CancelSaveProduct(h) ==
    /\ handlers[h].pc = "loop"
    /\ handlers[h].products_list # <<>>
    /\ stock' = save_models(<<Head(handlers[h].products_list)>>, stock)
    /\ handlers' = [handlers EXCEPT ![h].products_list = Tail(handlers[h].products_list)]
    /\ UNCHANGED <<orders, product_order, now, request, response, pre, body, reporting>>

\* order.order_status = "cancelled"; order.save() writes every field of the
\* instance read at the start, and the response is returned.
CancelSaveOrder(h) ==
    /\ handlers[h].pc = "loop"
    /\ handlers[h].products_list = <<>>
    /\ now' = now + 1
    /\ orders' = [orders EXCEPT ![handlers[h].pk] =
                      [handlers[h].order EXCEPT !.order_status = CancelledStatus,
                                                !.updated = now']]
    /\ handlers' = [handlers EXCEPT ![h].pc = "done",
                                    ![h].response = OkResponse(handlers[h].pk)]
    /\ UNCHANGED <<stock, product_order, request, response, pre, body, reporting>>

\* The orders a CreateOrder request can have created from the initial stock:
\* lines of positive quantity for pairwise distinct products.
ConcurrentOrders ==
    {received_order \in OrderLists :
        /\ received_order # <<>>
        /\ \A i \in DOMAIN received_order : received_order[i].quantity > 0
        /\ \A i, j \in DOMAIN received_order :
              i # j => received_order[i].id # received_order[j].id
        /\ CreateFailure(received_order, [p \in Products |-> InitStock]) = 0}

\* One stable order, as CreateOrder.post leaves it, and NumConcurrent
\* orders/cancel/1/ requests that have just arrived.
InitConcurrent ==
    /\ \E received_order \in ConcurrentOrders :
          LET st == [p \in Products |-> InitStock]
          IN /\ stock = save_models(CreateProductsList(received_order, st), st)
             /\ product_order = CreateProductOrderList(received_order, 1)
    /\ orders = <<[user |-> 1, order_status |-> "stable", created |-> 1, updated |-> 1]>>
    /\ now = 1
    /\ request = Request("CancelOrder", 1)
    /\ response = OkResponse(0)
    /\ pre = Tables
    /\ body = NoBody
    /\ products = DefaultCatalog
    /\ NoReports
    /\ handlers = [h \in ConcurrentHandlers |->
                      [pc |-> "get", pk |-> 1, order |-> orders[1], products_list |-> <<>>,
                       response |-> OkResponse(0)]]

NextConcurrent ==
    \E h \in ConcurrentHandlers :
        \/ CancelGetOrder(h)
        \/ CancelQueryLines(h)
        \/ CancelSaveProduct(h)
        \/ CancelSaveOrder(h)

SpecConcurrent == InitConcurrent /\ [][NextConcurrent]_vars

---------------------------------------------------------------------------
(* CreateOrder.post handled by several workers at once: again every query   *)
(* of the view is a step of its own.                                        *)

\* User.objects.get(pk=received_user_id)
CreateGetUser(h) ==
    /\ handlers[h].pc = "get_user"
    /\ IF handlers[h].user \notin Users
          THEN handlers' = [handlers EXCEPT
                   ![h].pc = "done",
                   ![h].response = ErrorResponse(NoSuchUser, handlers[h].user, 0)]
          ELSE handlers' = [handlers EXCEPT ![h].pc = "loop"]
    /\ UNCHANGED <<stock, orders, product_order, now, request, response, pre, body, reporting>>

\* One iteration of the loop: Product.objects.get(pk=unit["id"]), the stock
\* check on the instance it returns, and the decrement of that instance.
CreateGetProduct(h) ==
    /\ handlers[h].pc = "loop"
    /\ Len(handlers[h].products_list) < Len(handlers[h].order)
    /\ LET i == Len(handlers[h].products_list) + 1
           unit == handlers[h].order[i]
       IN IF unit.id \notin Products
              THEN handlers' = [handlers EXCEPT
                       ![h].pc = "done",
                       ![h].response = ErrorResponse(NoSuchProduct, unit.id, i)]
          ELSE IF CreateInsufficient(unit.quantity, stock[unit.id])
              THEN handlers' = [handlers EXCEPT
                       ![h].pc = "done",
                       ![h].response = ErrorResponse(CreateOutOfStock, unit.id, i)]
          ELSE handlers' = [handlers EXCEPT
                       ![h].products_list =
                           Append(@, [id |-> unit.id,
                                      stock |-> CreatedStock(stock[unit.id], unit.quantity)])]
    /\ UNCHANGED <<stock, orders, product_order, now, request, response, pre, body, reporting>>

\* order.save() after the loop: the insert gives the order its primary key.
CreateSaveOrder(h) ==
    /\ handlers[h].pc = "loop"
    /\ Len(handlers[h].products_list) = Len(handlers[h].order)
    /\ now' = now + 1
    /\ orders' = Append(orders, [user |-> handlers[h].user, order_status |-> "stable",
                                 created |-> now', updated |-> now'])
    /\ handlers' = [handlers EXCEPT ![h].pc = "save_products", ![h].pk = Len(orders) + 1]
    /\ UNCHANGED <<stock, product_order, request, response, pre, body, reporting>>

\* One save of save_models(products_list).
CreateSaveProduct(h) ==
    /\ handlers[h].pc = "save_products"
    /\ handlers[h].products_list # <<>>
    /\ stock' = save_models(<<Head(handlers[h].products_list)>>, stock)
    /\ handlers' = [handlers EXCEPT
           ![h].products_list = Tail(@),
           ![h].pc = IF Tail(handlers[h].products_list) = <<>> THEN "save_lines"
                     ELSE "save_products"]
    /\ UNCHANGED <<orders, product_order, now, request, response, pre, body, reporting>>

\* One save of save_models(product_order_list); after the last one the
\* response is returned.
CreateSaveProductOrder(h) ==
    /\ handlers[h].pc = "save_lines"
    /\ LET rows == CreateProductOrderList(handlers[h].order, handlers[h].pk)
           i == handlers[h].saved + 1
       IN /\ product_order' = Append(product_order, rows[i])
          /\ handlers' = [handlers EXCEPT
                 ![h].saved = i,
                 ![h].pc = IF i = Len(rows) THEN "done" ELSE "save_lines",
                 ![h].response = OkResponse(handlers[h].pk)]
    /\ UNCHANGED <<stock, orders, now, request, response, pre, body, reporting>>

\* The initial tables and NumConcurrent orders/create/ requests that have
\* just arrived, each for lines of positive quantity that the initial stock
\* covers.
InitConcurrentCreate ==
    /\ stock = [p \in Products |-> InitStock]
    /\ orders = <<>>
    /\ product_order = <<>>
    /\ now = 0
    /\ request = Request("CreateOrder", 0)
    /\ response = OkResponse(0)
    /\ pre = Tables
    /\ body = NoBody
    /\ products = DefaultCatalog
    /\ NoReports
    /\ handlers \in [ConcurrentHandlers ->
                        [pc : {"get_user"}, user : Users, order : ConcurrentOrders,
                         products_list : {<<>>}, pk : {0}, saved : {0},
                         response : {OkResponse(0)}]]

NextConcurrentCreate ==
    \E h \in ConcurrentHandlers :
        \/ CreateGetUser(h)
        \/ CreateGetProduct(h)
        \/ CreateSaveOrder(h)
        \/ CreateSaveProduct(h)
        \/ CreateSaveProductOrder(h)

SpecConcurrentCreate == InitConcurrentCreate /\ [][NextConcurrentCreate]_vars

---------------------------------------------------------------------------
(* summary_task *)

\* The range with both bounds excluded.
UpdatedInRangeExclusive(updated, first_date, second_date) ==
    /\ first_date.type = "datetime"
    /\ second_date.type = "datetime"
    /\ first_date.value < updated
    /\ updated < second_date.value

\* order__updated__range=(first_date, second_date): SQL BETWEEN, both bounds
\* included; a comparison with NULL selects no row.
UpdatedInRange(updated, first_date, second_date) ==
    /\ first_date.type = "datetime"
    /\ second_date.type = "datetime"
    /\ first_date.value <= updated
    /\ updated <= second_date.value

\* product_orders.filter(order__order_status=status): the lines of product p
\* in orders of that status whose update timestamp is in the range.
FilteredProductOrders(po, ord, p, status, first_date, second_date) ==
    SelectSeq(po, LAMBDA row :
        /\ row.product = p
        /\ ord[row.order].order_status = status
        /\ UpdatedInRange(ord[row.order].updated, first_date, second_date))

\* Sum("quantity") over the selected lines, with the None of an empty
\* selection replaced by 0.
RECURSIVE SumQuantity(_)
SumQuantity(rows) ==
    IF rows = <<>> THEN 0 ELSE Head(rows).quantity + SumQuantity(Tail(rows))

\* Sum("product__price") and Sum(F("product__price") - F("product__cost_price"))
\* over the selected lines: every line adds the product's price once,
\* whatever its quantity.
SumPrice(rows, product) == Len(rows) * product.price
SumMargin(rows, product) == Len(rows) * (product.price - product.cost_price)

\* ord_dict of one product.
OrdDict(po, ord, cat, p, first_date, second_date) ==
    LET completed == FilteredProductOrders(po, ord, p, "completed", first_date, second_date)
        cancelled == FilteredProductOrders(po, ord, p, "cancelled", first_date, second_date)
    IN [product |-> cat[p].product_name,
        revenue |-> SumPrice(completed, cat[p]),
        profit |-> SumMargin(completed, cat[p]),
        sold |-> SumQuantity(completed),
        returned |-> SumQuantity(cancelled)]

\* product_dict.update({product.product_name: ord_dict}): a name already in
\* the dict keeps its place and gets the new value.
ProductDictUpdate(product_dict, ord_dict) ==
    IF \E i \in DOMAIN product_dict : product_dict[i].product = ord_dict.product
    THEN [i \in DOMAIN product_dict |->
             IF product_dict[i].product = ord_dict.product THEN ord_dict ELSE product_dict[i]]
    ELSE Append(product_dict, ord_dict)

\* The filter refusing, besides, a window whose bounds are inverted.
RangeRejectsInverted(first_date, second_date) ==
    \/ first_date.type = "str"
    \/ second_date.type = "str"
    \/ first_date.value > second_date.value

\* The filter on order__updated__range prepares both values when it is
\* built: a string that is not a timestamp raises ValidationError there;
\* None is passed on as NULL.
RangeRejects(first_date, second_date) ==
    first_date.type = "str" \/ second_date.type = "str"

\* os.path.join(dir_path, name) raises TypeError for a name that is not a string.
PathRejects(name) == ~name.is_str

\* The insert without the unique constraint on name.
SaveRejectsNull(first_date, second_date, name, rep) ==
    first_date.type = "null" \/ second_date.type = "null"

\* new_summary.save(): the insert violates NOT NULL for a null date and the
\* unique constraint for a name that a row already has.
SaveRejects(first_date, second_date, name, rep) ==
    \/ first_date.type = "null"
    \/ second_date.type = "null"
    \/ \E pk \in DOMAIN rep : rep[pk].name = name

\* The task with the two dates handed over in the other order.
NewTaskSwapped(first_date, second_date, name) ==
    [first_date |-> second_date, second_date |-> first_date, name |-> name,
     pc |-> "queued", products |-> <<>>, product_dict |-> <<>>, error |-> ""]

\* A task as apply_async (or a direct call) hands it to summary_task.
NewTask(first_date, second_date, name) ==
    [first_date |-> first_date, second_date |-> second_date, name |-> name,
     pc |-> "queued", products |-> <<>>, product_dict |-> <<>>, error |-> ""]

\* Lines 14-21: the querysets are built and the for statement evaluates
\* Product.objects.all(), which has no ordering.
TaskStart(t) ==
    /\ tasks[t].pc = "queued"
    /\ IF RangeRejects(tasks[t].first_date, tasks[t].second_date)
          THEN tasks' = [tasks EXCEPT ![t].pc = "failed", ![t].error = "ValidationError"]
          ELSE \E qs \in QueryOrders(DOMAIN products) :
                  tasks' = [tasks EXCEPT ![t].pc = "loop", ![t].products = qs]
    /\ UNCHANGED <<stock, orders, product_order, now, request, response, pre, body,
                   handlers, products, reports, files>>

\* One iteration of the loop over products: its two aggregate queries.
TaskAggregate(t) ==
    /\ tasks[t].pc = "loop"
    /\ tasks[t].products # <<>>
    /\ tasks' = [tasks EXCEPT
           ![t].products = Tail(@),
           ![t].product_dict =
               ProductDictUpdate(@, OrdDict(product_order, orders, products,
                                            Head(tasks[t].products),
                                            tasks[t].first_date, tasks[t].second_date))]
    /\ UNCHANGED <<stock, orders, product_order, now, request, response, pre, body,
                   handlers, products, reports, files>>

\* The file as open(file_path, "w") and the buffered writer leave it while
\* the with block runs: truncated, with as many of the rows as have been
\* flushed so far.
OpenedFile(fs, name, product_dict) ==
    {[n \in DOMAIN fs \cup {name} |->
         IF n = name THEN SubSeq(product_dict, 1, flushed) ELSE fs[n]] :
     flushed \in 0..Len(product_dict)}

\* The file once the with block has closed it: every row is written.
ClosedFile(fs, name, product_dict) ==
    [n \in DOMAIN fs \cup {name} |-> IF n = name THEN product_dict ELSE fs[n]]

\* Lines 53-72: the path is built, the file is opened for writing and the
\* rows are handed to the writer.
TaskOpenFile(t) ==
    /\ tasks[t].pc = "loop"
    /\ tasks[t].products = <<>>
    /\ IF PathRejects(tasks[t].name)
          THEN /\ tasks' = [tasks EXCEPT ![t].pc = "failed", ![t].error = "TypeError"]
               /\ UNCHANGED files
          ELSE /\ tasks' = [tasks EXCEPT ![t].pc = "opened"]
               /\ files' \in OpenedFile(files, tasks[t].name, tasks[t].product_dict)
    /\ UNCHANGED <<stock, orders, product_order, now, request, response, pre, body,
                   handlers, products, reports>>

\* Lines 74-80: new_summary.save(), inside the with block.
TaskSaveReport(t) ==
    /\ tasks[t].pc = "opened"
    /\ IF SaveRejects(tasks[t].first_date, tasks[t].second_date, tasks[t].name, reports)
          THEN /\ tasks' = [tasks EXCEPT ![t].pc = "closing", ![t].error = "IntegrityError"]
               /\ UNCHANGED reports
          ELSE /\ tasks' = [tasks EXCEPT ![t].pc = "closing"]
               /\ reports' = Append(reports, [name |-> tasks[t].name,
                                              first_date |-> tasks[t].first_date,
                                              second_date |-> tasks[t].second_date,
                                              summary_report |-> tasks[t].name])
    /\ UNCHANGED <<stock, orders, product_order, now, request, response, pre, body,
                   handlers, products, files>>

\* The with block is left, by the return or by the exception of save(): the
\* file is flushed and closed.
TaskCloseFile(t) ==
    /\ tasks[t].pc = "closing"
    /\ files' = ClosedFile(files, tasks[t].name, tasks[t].product_dict)
    /\ tasks' = [tasks EXCEPT ![t].pc = IF tasks[t].error = "" THEN "done" ELSE "failed"]
    /\ UNCHANGED <<stock, orders, product_order, now, request, response, pre, body,
                   handlers, products, reports>>

\* Some step of some task the worker has received.
SummaryTask ==
    \E t \in DOMAIN tasks :
        \/ TaskStart(t)
        \/ TaskAggregate(t)
        \/ TaskOpenFile(t)
        \/ TaskSaveReport(t)
        \/ TaskCloseFile(t)

\* No task is between its first and its last step.
TasksIdle == \A t \in DOMAIN tasks : tasks[t].pc \in {"done", "failed"}

(* Runs of up to MaxSummaryRequests order requests followed by one direct   *)
(* call of summary_task, as the tests of the task make it                   *)

InitSummary ==
    /\ stock = [p \in Products |-> InitStock]
    /\ orders = <<>>
    /\ product_order = <<>>
    /\ now = 0
    /\ request = Request("none", 0)
    /\ response = OkResponse(0)
    /\ pre = Tables
    /\ body = NoBody
    /\ handlers = <<>>
    /\ products \in Catalogs
    /\ NoReports

\* orders/create/ requests for lines of positive quantity and distinct products.
PostCreateOrderSummary ==
    /\ tasks = <<>>
    /\ now < MaxSummaryRequests
    /\ UNCHANGED <<handlers, reporting>>
    /\ body' = NoBody
    /\ \E received_user_id \in Users, received_order \in ConcurrentOrders :
          CreateOrder(received_user_id, received_order)

GetCancelOrderSummary == tasks = <<>> /\ CancelRequests(MaxSummaryRequests)
GetCompleteOrderSummary == tasks = <<>> /\ CompleteRequests(MaxSummaryRequests)

\* summary_task(first_date, second_date, name), called directly with dates
\* and a name of the given sets.
CallRequests(dates, names) ==
    /\ tasks = <<>>
    /\ \E first_date \in dates, second_date \in dates, name \in names :
          tasks' = <<NewTask(first_date, second_date, name)>>
    /\ request' = Request("summary_task", 0)
    /\ response' = OkResponse(0)
    /\ pre' = Tables
    /\ UNCHANGED <<stock, orders, product_order, now, body, handlers,
                   products, reports, files>>

CallSummaryTask == CallRequests(WindowDates, {ReportName(1)})

NextSummary ==
    \/ PostCreateOrderSummary
    \/ GetCancelOrderSummary
    \/ GetCompleteOrderSummary
    \/ CallSummaryTask
    \/ SummaryTask

SpecSummary == InitSummary /\ [][NextSummary]_vars

(* One direct call of summary_task with any arguments, on any catalog of    *)
(* some or all or none of the products                                      *)

InitArguments ==
    /\ stock = [p \in Products |-> InitStock]
    /\ orders = <<>>
    /\ product_order = <<>>
    /\ now = 0
    /\ request = Request("none", 0)
    /\ response = OkResponse(0)
    /\ pre = Tables
    /\ body = NoBody
    /\ handlers = <<>>
    /\ \E ids \in SUBSET Products : products \in CatalogsOf(ids)
    /\ NoReports

CallSummaryTaskArguments == CallRequests(TaskDates, TaskNames)

NextArguments ==
    \/ CallSummaryTaskArguments
    \/ SummaryTask

SpecArguments == InitArguments /\ [][NextArguments]_vars

---------------------------------------------------------------------------
(* SummaryReport.post and UpdateProduct *)

\* request.data of report/create/.
ReportBody(first_date, second_date, name) ==
    [first_date |-> first_date, second_date |-> second_date, name |-> name]

\* generate_name: a name made of the current time.
generate_name(t) == ReportName(NumReportNames + t)

\* The lookup with the name taken for a primary key.
ExistingSummaryByPk(rep, name) == {pk \in DOMAIN rep : pk = name.value}

\* SummaryReportModel.objects.get(name=name): the rows with that name.
ExistingSummary(rep, name) == {pk \in DOMAIN rep : rep[pk].name = name}

ReportDateMissing == "Missing or invalid date in request json"

\* JsonResponse({"Summary": "summary task named ... created, please wait"}, status=200)
CreatedResponse == [status |-> 200, error |-> "", about |-> 0, at |-> 0]

SummaryReportPost(first_date, second_date, received_name) ==
    /\ now' = now + 1
    /\ pre' = Tables
    /\ request' = Request("SummaryReport", 0)
    /\ body' = ReportBody(first_date, second_date, received_name)
    /\ LET name == IF received_name = MissingName THEN generate_name(now') ELSE received_name
           summary == ExistingSummary(reports, name)
       IN IF first_date = MissingDate \/ second_date = MissingDate
              THEN /\ response' = ErrorResponse(ReportDateMissing, 0, 0)
                   /\ UNCHANGED tasks
          ELSE IF summary = {}
              THEN /\ tasks' = Append(tasks, NewTask(first_date, second_date, name))
                   /\ response' = CreatedResponse
          ELSE /\ response' = OkResponse(CHOOSE pk \in summary : TRUE)
               /\ UNCHANGED tasks
    /\ UNCHANGED <<stock, orders, product_order, handlers, products, reports, files>>

\* The stock values a products/update/ request can carry.
StockValues == (0 - MaxNegQuantity)..InitStock

\* The update applied to the whole queryset instead of the object looked up.
UpdateProductAll(pk, new_stock, new_price, new_cost_price) ==
    /\ now' = now + 1
    /\ pre' = Tables
    /\ request' = Request("UpdateProduct", pk)
    /\ body' = NoBody
    /\ response' = OkResponse(pk)
    /\ stock' = [p \in DOMAIN stock |-> new_stock]
    /\ UNCHANGED <<orders, product_order, handlers, products, reports, files, tasks>>

\* UpdateProduct: UpdateAPIView with UpdateProductSerializer, whose fields
\* are stock, price and cost_price; PATCH leaves out any of them.
UpdateProduct(pk, new_stock, new_price, new_cost_price) ==
    /\ now' = now + 1
    /\ pre' = Tables
    /\ request' = Request("UpdateProduct", pk)
    /\ body' = NoBody
    /\ IF pk \notin DOMAIN products
          THEN /\ response' = [status |-> 404, error |-> "Not found.", about |-> pk, at |-> 0]
               /\ UNCHANGED <<stock, products>>
          ELSE /\ response' = OkResponse(pk)
               /\ stock' = [stock EXCEPT ![pk] = new_stock]
               /\ products' = [products EXCEPT ![pk].price = new_price,
                                               ![pk].cost_price = new_cost_price]
    /\ UNCHANGED <<orders, product_order, handlers, reports, files, tasks>>

(* Runs that start with one completed order and go on with up to            *)
(* MaxStoreRequests requests to any endpoint, the worker running the tasks  *)
(* in between                                                               *)

\* The tables after an orders/create/ request for lines of positive quantity
\* and an orders/complete/1/ request.
InitStore ==
    /\ \E received_order \in ConcurrentOrders :
          LET st == [p \in Products |-> InitStock]
          IN /\ stock = save_models(CreateProductsList(received_order, st), st)
             /\ product_order = CreateProductOrderList(received_order, 1)
    /\ orders = <<[user |-> 1, order_status |-> CompletedStatus, created |-> 1, updated |-> 2]>>
    /\ now = 2
    /\ request = Request("CompleteOrder", 1)
    /\ response = OkResponse(1)
    /\ pre = Tables
    /\ body = NoBody
    /\ handlers = <<>>
    /\ products = DefaultCatalog
    /\ NoReports

StoreLimit == 2 + MaxStoreRequests

PostCreateOrderStore == PostRequests(StoreLimit, FALSE)
PutUpdateOrderStore == PutRequests(StoreLimit, FALSE)
GetCancelOrderStore == CancelRequests(StoreLimit)
GetCompleteOrderStore == CompleteRequests(StoreLimit)

PostSummaryReport ==
    /\ now < StoreLimit
    /\ \E first_date \in WindowDates \cup {MissingDate},
          second_date \in WindowDates \cup {MissingDate},
          received_name \in ReportNames \cup {MissingName} :
          SummaryReportPost(first_date, second_date, received_name)

PutUpdateProduct ==
    /\ now < StoreLimit
    /\ \E pk \in ProductIds :
          \E new_stock \in StockValues, new_price \in Prices, new_cost_price \in CostPrices :
             UpdateProduct(pk, new_stock, new_price, new_cost_price)

NextStore ==
    \/ PostCreateOrderStore
    \/ PutUpdateOrderStore
    \/ GetCancelOrderStore
    \/ GetCompleteOrderStore
    \/ PutUpdateProduct
    \/ PostSummaryReport
    \/ SummaryTask

SpecStore == InitStore /\ [][NextStore]_vars

(* Runs of new orders and well-formed report requests with a worker        *)
(* that goes on executing the tasks it has received for as long as there   *)
(* is one that has not ended                                                *)

\* Report requests for the window that ends at the first date and starts
\* there or later (an inverted window selects no order).
PostSummaryReportWorker ==
    /\ now < StoreLimit
    /\ \E first_date \in WindowDates, received_name \in ReportNames :
          SummaryReportPost(first_date, Datetime(FirstWindowDate), received_name)

NextWorker ==
    \/ PostCreateOrderStore
    \/ PostSummaryReportWorker
    \/ SummaryTask

SpecWorker == InitStore /\ [][NextWorker]_vars /\ WF_vars(SummaryTask)

---------------------------------------------------------------------------
(* Properties of the order endpoints *)

\* The error kinds of the design (section 7), in terms of the handlers' messages.
NotFound(r) == r.status = 400 /\ r.error \in {NoSuchUser, NoSuchProduct, UpdateNoSuchOrder, NoSuchOrder}
InvalidState(r) == r.status = 400 /\ r.error \in {UpdateTerminal, CancelCompleted, CompleteCancelled}
InsufficientStock(r) == r.status = 400 /\ r.error \in {CreateOutOfStock, UpdateOutOfStock}
MissingLine(r) == r.status = 400 /\ r.error = UpdateMissingProduct

\* The request last received addressed an order that existed when it arrived.
AddressedOrder == request.pk \in DOMAIN pre.orders

\* The request last received went to endpoint op and addressed an existing
\* order whose status was status_before when it arrived.
Handled(op, status_before) ==
    /\ request.op = op
    /\ AddressedOrder
    /\ pre.orders[request.pk].order_status = status_before

\* Total quantity of the rows of a sequence that reference product p.
RECURSIVE TotalQuantity(_, _)
TotalQuantity(rows, p) ==
    IF rows = <<>> THEN 0
    ELSE (IF Head(rows).product = p THEN Head(rows).quantity ELSE 0)
         + TotalQuantity(Tail(rows), p)

\* The lines of order pk in a ProductOrder table, in primary-key order.
LinesOfOrder(po, pk) == SelectSeq(po, LAMBDA row : row.order = pk)

\* C1: every product's stock is non-negative in every state reachable by
\* CreateOrder, UpdateOrder, CancelOrder and CompleteOrder requests carrying
\* any integer quantities the handlers accept.
C1_StockNeverNegative == \A p \in Products : stock[p] >= 0

\* C2: a CancelOrder request on an order (with lines of positive quantity)
\* that is already cancelled fails with InvalidState and leaves every
\* product's stock unchanged, so the quantities of the order are given back
\* to stock only once.
C2_SecondCancelRejected ==
    (/\ Handled("CancelOrder", "cancelled")
     /\ OrderLinesOf(pre.product_order, request.pk) # {}
     /\ \A i \in OrderLinesOf(pre.product_order, request.pk) :
           pre.product_order[i].quantity > 0) =>
        /\ InvalidState(response)
        /\ stock = pre.stock

\* C3: CancelOrder on a stable order (of positive quantities) succeeds, sets
\* the order's status to cancelled, and raises each product's stock by the
\* quantity of every line of the order that references it; products the order
\* does not reference keep their stock.
C3_CancelRestoresEveryLine ==
    (/\ Handled("CancelOrder", "stable")
     /\ \A i \in OrderLinesOf(pre.product_order, request.pk) :
           pre.product_order[i].quantity > 0) =>
        /\ response.status = 200
        /\ orders[request.pk].order_status = "cancelled"
        /\ \A p \in Products :
              stock[p] = pre.stock[p]
                         + TotalQuantity(LinesOfOrder(pre.product_order, request.pk), p)

\* The body of the orders/create/ request last received names an existing
\* user and pairwise distinct existing products, each with a quantity that
\* does not exceed the product's stock.
CreateAcceptable ==
    /\ request.op = "CreateOrder"
    /\ body.user \in Users
    /\ \A i \in DOMAIN body.order :
          /\ body.order[i].id \in Products
          /\ body.order[i].quantity <= pre.stock[body.order[i].id]
    /\ \A i, j \in DOMAIN body.order : i # j => body.order[i].id # body.order[j].id

\* C4: CreateOrder with lines that reference pairwise distinct existing
\* products, each quantity within the product's stock, lowers each referenced
\* product's stock by exactly its line's quantity, creates one order in stable
\* status owned by the given user, and creates exactly one line per
\* (product, quantity) pair with that quantity.
C4_CreateReservesEachLine ==
    CreateAcceptable =>
        /\ response.status = 200
        /\ \A i \in DOMAIN body.order :
              stock[body.order[i].id] = pre.stock[body.order[i].id] - body.order[i].quantity
        /\ Len(orders) = Len(pre.orders) + 1
        /\ SubSeq(orders, 1, Len(pre.orders)) = pre.orders
        /\ response.about = Len(orders)
        /\ orders[Len(orders)].order_status = "stable"
        /\ orders[Len(orders)].user = body.user
        /\ Len(product_order) = Len(pre.product_order) + Len(body.order)
        /\ SubSeq(product_order, 1, Len(pre.product_order)) = pre.product_order
        /\ \A i \in DOMAIN body.order :
              LET row == product_order[Len(pre.product_order) + i]
              IN /\ row.order = Len(orders)
                 /\ row.product = body.order[i].id
                 /\ row.quantity = body.order[i].quantity

\* A two-line order for two different products has just been created.
C4_Witness ==
    /\ CreateAcceptable
    /\ response.status = 200
    /\ Len(body.order) = 2
    /\ \E i \in DOMAIN body.order : body.order[i].quantity > 0

\* The body of the request as ProductOrder-shaped rows.
BodyRows == [i \in DOMAIN body.order |->
                [product |-> body.order[i].id, quantity |-> body.order[i].quantity]]

\* C5: a successful CreateOrder (of positive quantities) lowers every
\* product's stock by the sum of the quantities of the request's lines that
\* reference it, also when several lines reference the same product.
C5_CreateReservesOncePerLine ==
    (/\ request.op = "CreateOrder"
     /\ response.status = 200
     /\ \A i \in DOMAIN body.order : body.order[i].quantity > 0) =>
        \A p \in Products : stock[p] = pre.stock[p] - TotalQuantity(BodyRows, p)

\* C6: CreateOrder is rejected with NotFound when the user or the product of
\* some line does not exist, and with InsufficientStock when some line's
\* quantity exceeds its product's stock (the first failing check decides which
\* of the two); a rejected CreateOrder creates no order and no line and
\* leaves every product's stock unchanged.
C6_CreateRejectedChangesNothing ==
    request.op = "CreateOrder" =>
        LET missing_user == body.user \notin Users
            missing_product(i) == body.order[i].id \notin Products
            exceeds(i) == /\ body.order[i].id \in Products
                          /\ body.order[i].quantity > pre.stock[body.order[i].id]
            failing == {i \in DOMAIN body.order : missing_product(i) \/ exceeds(i)}
            first == CHOOSE i \in failing : \A j \in failing : i <= j
        IN /\ response.status = 400 <=> (missing_user \/ failing # {})
           /\ missing_user => NotFound(response) /\ response.about = body.user
           /\ (~missing_user /\ failing # {} /\ missing_product(first)) =>
                 NotFound(response) /\ response.about = body.order[first].id
           /\ (~missing_user /\ failing # {} /\ exceeds(first)) =>
                 InsufficientStock(response)
           /\ response.status = 400 => Tables = pre

\* A CreateOrder was rejected at its second line, after its first line had
\* passed both checks.
C6_Witness ==
    /\ request.op = "CreateOrder"
    /\ response.status = 400
    /\ response.at = 2
    /\ InsufficientStock(response)
    /\ body.order[1].quantity > 0

\* C7: an order whose status is completed stays completed and an order whose
\* status is cancelled stays cancelled, whatever request is handled next.
C7_TerminalStatusStays ==
    [][\A pk \in DOMAIN orders :
          orders[pk].order_status \in {"completed", "cancelled"} =>
              /\ pk \in DOMAIN orders'
              /\ orders'[pk].order_status = orders[pk].order_status]_vars

\* A request to change an order that was already completed or cancelled has
\* been handled.
C7_Witness ==
    /\ request.op \in {"UpdateOrder", "CancelOrder", "CompleteOrder"}
    /\ AddressedOrder
    /\ pre.orders[request.pk].order_status \in {"completed", "cancelled"}
    /\ response.status = 200

\* C8: once an order is completed or cancelled, no request changes its row
\* (status, update timestamp) or its lines.
C8_TerminalOrderImmutable ==
    \A pk \in DOMAIN pre.orders :
        pre.orders[pk].order_status \in {"completed", "cancelled"} =>
            /\ orders[pk] = pre.orders[pk]
            /\ LinesOfOrder(product_order, pk) = LinesOfOrder(pre.product_order, pk)

\* C9: CompleteOrder on a stable order sets its status to completed and
\* leaves every product's stock and every order line unchanged.
C9_CompleteLeavesStock ==
    Handled("CompleteOrder", "stable") =>
        /\ response.status = 200
        /\ orders[request.pk].order_status = "completed"
        /\ stock = pre.stock
        /\ product_order = pre.product_order

\* A stable order with lines has been completed.
C9_Witness ==
    /\ Handled("CompleteOrder", "stable")
    /\ \E i \in DOMAIN pre.product_order :
          /\ pre.product_order[i].order = request.pk
          /\ pre.product_order[i].quantity > 0

\* C10: CompleteOrder on a cancelled order fails with InvalidState and leaves
\* the order cancelled and every product's stock unchanged.
C10_CompleteCancelledRejected ==
    Handled("CompleteOrder", "cancelled") =>
        /\ InvalidState(response)
        /\ orders[request.pk].order_status = "cancelled"
        /\ stock = pre.stock

\* A CompleteOrder request for a cancelled order has been handled.
C10_Witness == Handled("CompleteOrder", "cancelled")

\* C11: CancelOrder on a completed order fails with InvalidState and leaves
\* the order completed and every product's stock unchanged.
C11_CancelCompletedRejected ==
    Handled("CancelOrder", "completed") =>
        /\ InvalidState(response)
        /\ orders[request.pk].order_status = "completed"
        /\ stock = pre.stock

\* A CancelOrder request for a completed order with a line of positive
\* quantity has been handled.
C11_Witness ==
    /\ Handled("CancelOrder", "completed")
    /\ \E i \in OrderLinesOf(pre.product_order, request.pk) :
          pre.product_order[i].quantity > 0

\* C12: CompleteOrder on an order that is already completed is rejected with
\* InvalidState and changes nothing.
C12_SecondCompleteRejected ==
    Handled("CompleteOrder", "completed") =>
        /\ InvalidState(response)
        /\ Tables = pre

\* C13: UpdateOrder on a completed or cancelled order fails with InvalidState
\* and leaves every line's quantity and every product's stock unchanged.
C13_UpdateTerminalRejected ==
    (Handled("UpdateOrder", "completed") \/ Handled("UpdateOrder", "cancelled")) =>
        /\ InvalidState(response)
        /\ product_order = pre.product_order
        /\ stock = pre.stock

\* An UpdateOrder request for a cancelled order with a line has been handled.
C13_Witness ==
    /\ Handled("UpdateOrder", "cancelled")
    /\ OrderLinesOf(pre.product_order, request.pk) # {}

\* The quantity the body of the orders/update/ request last received gives for
\* each product id it names (the last one, where it names an id twice).
NewQuantities == reorder_by_id(body.order)

\* The lines the addressed order had when the request arrived, and their products.
OldLines == OrderLinesOf(pre.product_order, request.pk)
OldProducts == {pre.product_order[i].product : i \in OldLines}

\* The lines of the addressed order whose product the request names with a
\* quantity above the product's stock.
ExceedingLines ==
    {i \in OldLines :
        /\ pre.product_order[i].product \in DOMAIN NewQuantities
        /\ NewQuantities[pre.product_order[i].product] > pre.stock[pre.product_order[i].product]}

\* C14, as stated: UpdateOrder on a stable order (positive quantities, no line
\* missing) fails with InsufficientStock exactly when stock + old_quantity -
\* new_quantity < 0 for some existing line, and succeeds otherwise.
C14_UpdateFailsOnNegativeDelta ==
    (/\ Handled("UpdateOrder", "stable")
     /\ OldProducts \subseteq DOMAIN NewQuantities
     /\ \A i \in OldLines :
           /\ pre.product_order[i].quantity > 0
           /\ NewQuantities[pre.product_order[i].product] > 0) =>
        LET negative == \E i \in OldLines :
                           pre.stock[pre.product_order[i].product]
                           + pre.product_order[i].quantity
                           - NewQuantities[pre.product_order[i].product] < 0
        IN /\ InsufficientStock(response) <=> negative
           /\ response.status = 200 <=> ~negative

\* C14, amended: UpdateOrder on a stable order from which no line is missing
\* fails with InsufficientStock exactly when, for some existing line, the new
\* quantity exceeds the product's current stock (the line's old quantity is
\* not counted), and succeeds otherwise.
C14_UpdateFailsOnExceedingStock ==
    (/\ Handled("UpdateOrder", "stable")
     /\ OldProducts \subseteq DOMAIN NewQuantities) =>
        /\ InsufficientStock(response) <=> ExceedingLines # {}
        /\ response.status = 200 <=> ExceedingLines = {}
        /\ InsufficientStock(response) => response.about \in
              {pre.product_order[i].product : i \in ExceedingLines}

\* An update was refused although the old quantity would have covered it:
\* new_quantity > stock, and stock + old_quantity - new_quantity >= 0.
C14_Witness ==
    /\ Handled("UpdateOrder", "stable")
    /\ OldProducts \subseteq DOMAIN NewQuantities
    /\ InsufficientStock(response)
    /\ \A i \in OldLines :
          /\ pre.product_order[i].quantity > 0
          /\ pre.stock[pre.product_order[i].product] + pre.product_order[i].quantity
             - NewQuantities[pre.product_order[i].product] >= 0

\* C15: a successful UpdateOrder on a stable order (positive quantities) sets
\* every existing line's quantity to the new quantity given for its product,
\* changes every product's stock by old_quantity - new_quantity for each line
\* of the order that references it, and leaves the order stable; products the
\* order does not reference keep their stock.
C15_UpdateAppliesDelta ==
    (/\ Handled("UpdateOrder", "stable")
     /\ response.status = 200
     /\ \A i \in OldLines :
           /\ pre.product_order[i].quantity > 0
           /\ NewQuantities[pre.product_order[i].product] > 0) =>
        /\ \A i \in OldLines :
              product_order[i].quantity = NewQuantities[pre.product_order[i].product]
        /\ \A p \in Products :
              stock[p] = pre.stock[p]
                         + TotalQuantity(LinesOfOrder(pre.product_order, request.pk), p)
                         - TotalQuantity(LinesOfOrder(product_order, request.pk), p)
        /\ orders[request.pk].order_status = "stable"

\* C16: an UpdateOrder that fails with InsufficientStock leaves every
\* product's stock, every order and every line unchanged, also when lines
\* processed before the failing one had passed their check.
C16_UpdateInsufficientChangesNothing ==
    (request.op = "UpdateOrder" /\ InsufficientStock(response)) => Tables = pre

\* An update failed with InsufficientStock at the second line it processed,
\* after a first line whose quantity the request changes had passed.
C16_Witness ==
    /\ Handled("UpdateOrder", "stable")
    /\ InsufficientStock(response)
    /\ response.at = 2
    /\ \E i \in OldLines :
          /\ pre.product_order[i].product # response.about
          /\ NewQuantities[pre.product_order[i].product] # pre.product_order[i].quantity

C18_UpdateExtraProductRejected ==
    (/\ Handled("UpdateOrder", "stable")
     /\ OldLines # {}
     /\ \A i \in OldLines : pre.product_order[i].quantity > 0
     /\ \A i \in DOMAIN body.order : body.order[i].quantity > 0
     /\ OldProducts \subseteq DOMAIN NewQuantities
     /\ ExceedingLines = {}
     /\ DOMAIN NewQuantities \ OldProducts # {}) =>
        /\ response.status = 400
        /\ Tables = pre

\* C19: every order line's quantity is a positive integer in every reachable
\* state.
C19_LineQuantitiesPositive ==
    \A i \in DOMAIN product_order : product_order[i].quantity > 0

\* C20: when the concurrent CancelOrder requests on the same stable order have
\* all finished, every product's stock has increased by the order's line
\* quantities exactly once.
C20_ConcurrentCancelRestoresOnce ==
    (\A h \in DOMAIN handlers : handlers[h].pc = "done") =>
        \A p \in Products :
            stock[p] = pre.stock[p] + TotalQuantity(LinesOfOrder(pre.product_order, 1), p)

\* C21: when concurrent CreateOrder requests (positive quantities, distinct
\* products within each request) have all finished, no stock write has been
\* lost: for every product the stock has gone down by the total quantity of
\* the lines created, and that total does not exceed the stock that was
\* available before the requests.
C21_ConcurrentCreateLosesNoWrite ==
    (\A h \in DOMAIN handlers : handlers[h].pc = "done") =>
        \A p \in Products :
            /\ stock[p] = pre.stock[p] - TotalQuantity(product_order, p)
            /\ TotalQuantity(product_order, p) <= pre.stock[p]

\* C22: no partly applied CancelOrder is observable: while the order's row
\* still says stable no product's stock has been raised, and once it says
\* cancelled every line's quantity has been given back.
C22_NoPartialCancel ==
    /\ orders[1].order_status = "stable" => stock = pre.stock
    /\ orders[1].order_status = "cancelled" =>
          \A p \in Products :
              stock[p] >= pre.stock[p] + TotalQuantity(LinesOfOrder(pre.product_order, 1), p)

---------------------------------------------------------------------------
(* Properties of the summary *)

\* The direct call of summary_task has returned its report.
TaskDone == tasks # <<>> /\ tasks[1].pc = "done"

\* The rows of the artifact that call wrote.
Summary == files[tasks[1].name]

\* The lines of product p in orders of the given status whose update
\* timestamp lies in the window of the call, and the units they add up to.
WindowLines(p, status) ==
    {i \in DOMAIN product_order :
        /\ product_order[i].product = p
        /\ orders[product_order[i].order].order_status = status
        /\ tasks[1].first_date.value <= orders[product_order[i].order].updated
        /\ orders[product_order[i].order].updated <= tasks[1].second_date.value}

RECURSIVE UnitsOf(_)
UnitsOf(lines) ==
    IF lines = {} THEN 0
    ELSE LET i == CHOOSE i \in lines : TRUE
         IN product_order[i].quantity + UnitsOf(lines \ {i})

WindowUnits(p, status) == UnitsOf(WindowLines(p, status))

\* No two products of the catalog have the same name.
DistinctNames ==
    \A p, q \in DOMAIN products : p # q => products[p].product_name # products[q].product_name

\* C24: in a generated summary (of a catalog with distinct names) each
\* product's row has revenue equal to price times its completed in-window
\* units and profit equal to (price - cost_price) times those units.
C24_RevenueIsPriceTimesUnits ==
    (TaskDone /\ DistinctNames) =>
        \A p \in DOMAIN products :
            \E i \in DOMAIN Summary :
                /\ Summary[i].product = products[p].product_name
                /\ Summary[i].revenue = products[p].price * WindowUnits(p, "completed")
                /\ Summary[i].profit =
                      (products[p].price - products[p].cost_price) * WindowUnits(p, "completed")

\* C25: in a generated summary each product has a row whose sold is the sum
\* of the quantities of its lines in completed orders updated in the window
\* and whose returned is that sum over cancelled orders updated in the window.
C25_SoldAndReturnedAreSums ==
    TaskDone =>
        \A p \in DOMAIN products :
            \E i \in DOMAIN Summary :
                /\ Summary[i].product = products[p].product_name
                /\ Summary[i].sold = WindowUnits(p, "completed")
                /\ Summary[i].returned = WindowUnits(p, "cancelled")

\* C26: a product with no line in a completed or cancelled order inside the
\* window has a row in the generated summary with revenue, profit, sold and
\* returned all zero.
C26_ProductWithoutLinesHasZeroRow ==
    TaskDone =>
        \A p \in DOMAIN products :
            (WindowLines(p, "completed") = {} /\ WindowLines(p, "cancelled") = {}) =>
                \E i \in DOMAIN Summary :
                    /\ Summary[i].product = products[p].product_name
                    /\ Summary[i].revenue = 0
                    /\ Summary[i].profit = 0
                    /\ Summary[i].sold = 0
                    /\ Summary[i].returned = 0

\* The call of summary_task has ended, with its report or with an exception.
TaskEnded == tasks # <<>> /\ tasks[1].pc \in {"done", "failed"}

\* C30: a call of summary_task with a first_date or second_date that is not a
\* timestamp, or with a name that is not a string, ends with an argument
\* error, whatever the catalog, and leaves no report row and no file.
C30_BadArgumentsPersistNothing ==
    (/\ TaskEnded
     /\ \/ tasks[1].first_date.type # "datetime"
        \/ tasks[1].second_date.type # "datetime"
        \/ ~tasks[1].name.is_str) =>
        /\ tasks[1].pc = "failed"
        /\ tasks[1].error \in {"ValidationError", "TypeError"}
        /\ reports = <<>>
        /\ DOMAIN files = {}

\* C34: the generated summary has exactly one row per product of the
\* catalog, in the order in which the products were inserted (by primary
\* key), whatever the catalog, products of the same name included.
C34_OneRowPerProductInOrder ==
    TaskDone =>
        /\ Len(Summary) = Cardinality(DOMAIN products)
        /\ \A p \in DOMAIN products :
              /\ p \in DOMAIN Summary
              /\ Summary[p].product = products[p].product_name

\* C35: every row of a generated summary is computed from the lines of one
\* product of that name in orders that are completed (sold, revenue, profit)
\* or cancelled (returned) when the task runs and whose update timestamp t
\* satisfies first_date <= t <= second_date; lines of stable orders and of
\* orders updated outside the window add nothing to any of the four values.
C35_OnlyWindowLinesContribute ==
    TaskDone =>
        \A i \in DOMAIN Summary :
            \E p \in DOMAIN products :
                /\ products[p].product_name = Summary[i].product
                /\ Summary[i].sold = WindowUnits(p, "completed")
                /\ Summary[i].returned = WindowUnits(p, "cancelled")
                /\ Summary[i].revenue =
                      products[p].price * Cardinality(WindowLines(p, "completed"))
                /\ Summary[i].profit =
                      (products[p].price - products[p].cost_price)
                          * Cardinality(WindowLines(p, "completed"))

\* A summary has been generated while a stable order updated inside the
\* window had a line, and a completed order updated exactly at second_date
\* was counted.
C35_Witness ==
    /\ TaskDone
    /\ tasks[1].first_date.value < tasks[1].second_date.value
    /\ \E i \in DOMAIN product_order :
          /\ orders[product_order[i].order].order_status = "stable"
          /\ orders[product_order[i].order].updated >= tasks[1].first_date.value
          /\ orders[product_order[i].order].updated <= tasks[1].second_date.value
    /\ \E i \in DOMAIN product_order :
          /\ orders[product_order[i].order].order_status = "completed"
          /\ orders[product_order[i].order].updated = tasks[1].second_date.value
    /\ \E i \in DOMAIN Summary : Summary[i].sold > 0

---------------------------------------------------------------------------
(* Properties of the store as a whole *)

\* The step handles a request (every request reads the clock once).
RequestStep == now' # now

\* The step handles a request to one of the four order endpoints.
EngineStep ==
    /\ RequestStep
    /\ request'.op \in {"CreateOrder", "UpdateOrder", "CancelOrder", "CompleteOrder"}

\* The status of every order, by primary key.
OrderStatuses(ord) == [pk \in DOMAIN ord |-> ord[pk].order_status]

C27_ExistingNameIsReturned ==
    [][(/\ RequestStep
        /\ request'.op = "SummaryReport"
        /\ body'.first_date # MissingDate
        /\ body'.second_date # MissingDate
        /\ \E pk \in DOMAIN reports : reports[pk].name = body'.name) =>
           /\ response'.status = 200
           /\ response'.about \in DOMAIN reports
           /\ reports[response'.about].name = body'.name
           /\ tasks' = tasks
           /\ reports' = reports
           /\ files' = files]_vars

\* A report request named a report that exists and got its id back.
C27_Witness ==
    /\ request.op = "SummaryReport"
    /\ response.status = 200
    /\ response.about \in DOMAIN reports
    /\ reports[response.about].name = body.name

\* C28: once a report row exists and the task that created it has returned,
\* the row (name, window bounds, file) and the content of its file never
\* change.
C28_ReportImmutable ==
    [][\A pk \in DOMAIN reports :
          (\E t \in DOMAIN tasks : tasks[t].name = reports[pk].name /\ tasks[t].pc = "done") =>
              /\ pk \in DOMAIN reports'
              /\ reports'[pk] = reports[pk]
              /\ files'[reports[pk].summary_report] = files[reports[pk].summary_report]]_vars

\* C29: no two report rows have the same name.
C29_ReportNamesUnique ==
    \A pk, other \in DOMAIN reports : pk # other => reports[pk].name # reports[other].name

\* A task failed to save a second row for a name that a row already had.
C29_Witness ==
    \E t \in DOMAIN tasks :
        /\ tasks[t].error = "IntegrityError"
        /\ \E pk \in DOMAIN reports : reports[pk].name = tasks[t].name

\* The step handles a report/create/ request.
ReportStep == RequestStep /\ request'.op = "SummaryReport"

\* C31: a report request with both dates and a name that no report row has
\* adds exactly one task, with the request's dates and name, to the queue,
\* and is answered 200 while that task has not started and no row or file
\* has been written; a request without one of the dates is answered 400 and
\* adds no task.
C31_RequestEnqueuesOneTask ==
    [][ReportStep =>
          /\ (body'.first_date = MissingDate \/ body'.second_date = MissingDate) =>
                 /\ response'.status = 400
                 /\ tasks' = tasks
          /\ (/\ body'.first_date # MissingDate
              /\ body'.second_date # MissingDate
              /\ body'.name # MissingName
              /\ \A pk \in DOMAIN reports : reports[pk].name # body'.name) =>
                 /\ response'.status = 200
                 /\ Len(tasks') = Len(tasks) + 1
                 /\ SubSeq(tasks', 1, Len(tasks)) = tasks
                 /\ tasks'[Len(tasks')].first_date = body'.first_date
                 /\ tasks'[Len(tasks')].second_date = body'.second_date
                 /\ tasks'[Len(tasks')].name = body'.name
                 /\ tasks'[Len(tasks')].pc = "queued"
                 /\ reports' = reports
                 /\ files' = files]_vars

\* A report request with two different dates and a new name has been
\* acknowledged, and its task waits in the queue.
C31_Witness ==
    /\ request.op = "SummaryReport"
    /\ response = CreatedResponse
    /\ body.name \in ReportNames
    /\ body.first_date # body.second_date
    /\ tasks # <<>>
    /\ tasks[Len(tasks)].name = body.name
    /\ tasks[Len(tasks)].pc = "queued"

\* A report row with the name exists and the file it references is written.
ReportWritten(name) ==
    \E pk \in DOMAIN reports :
        /\ reports[pk].name = name
        /\ reports[pk].summary_report \in DOMAIN files

C33_MissingOrderRejected ==
    (request.op \in {"UpdateOrder", "CancelOrder", "CompleteOrder"} /\ ~AddressedOrder) =>
        /\ NotFound(response)
        /\ response.about = request.pk
        /\ Tables = pre

\* A request for an id that matches no order has been handled while another
\* order exists.
C33_Witness ==
    /\ request.op \in {"UpdateOrder", "CancelOrder", "CompleteOrder"}
    /\ ~AddressedOrder
    /\ pre.orders # <<>>

\* The units of product p held by the lines of stable and completed orders.
HeldUnits(p) ==
    TotalQuantity(SelectSeq(product_order,
                            LAMBDA row : orders[row.order].order_status # CancelledStatus), p)

\* C36: after any sequence of CreateOrder, UpdateOrder, CancelOrder and
\* CompleteOrder requests handled one after the other, every product's stock
\* plus the quantities of its lines in stable and completed orders equals
\* its initial stock.
C36_StockConserved ==
    \A p \in Products : stock[p] + HeldUnits(p) = InitStock

====
